---- MODULE Spec2Model ----
(***************************************************************************)
(* Model of the PhiCode symbol transpiler: SymbolTranspiler (src/main.rs)   *)
(* and ThreatDetector (src/threat_detector.rs).                             *)
(*                                                                          *)
(* Text is a sequence of Unicode code points (a Rust &str seen as chars).   *)
(* Byte-level code (String::len, str::bytes, as_bytes) goes through Utf8.   *)
(* Option<T> is a sequence of length 0 (None) or 1 (Some(x)).               *)
(* A mapping (AHashMap<String, String>) is a function from key to           *)
(* replacement text. A key is held run-length encoded, as a sequence of     *)
(* runs <<code point, count>>, so that a key of many megabytes (the only    *)
(* kind of key set Regex::new rejects) is a value of the model; Packed and  *)
(* Unpacked convert between a text and its runs.                            *)
(***************************************************************************)
EXTENDS Integers, Sequences, FiniteSets, TLC

VARIABLES
    mappings,       \* SymbolTranspiler.mappings
    pattern,        \* SymbolTranspiler.pattern: Option<Regex>
    symbol_bytes,   \* SymbolTranspiler.symbol_bytes: Option<AHashSet<u8>>
    detector,       \* ThreatDetector.detector: the patterns of the automaton
    op,             \* the last operation called: "new", "configure", "transpile", "is_dangerous"
    arg,            \* the arguments of the last operation
    ret,            \* what the last operation returned
    calls           \* the invocations of the replace_all closure during the last transpile

vars == <<mappings, pattern, symbol_bytes, detector, op, arg, ret, calls>>

None == <<>>
Some(x) == <<x>>

EmptyMap == [k \in {} |-> <<>>]

(***************************************************************************)
(* Characters                                                               *)
(***************************************************************************)

\* The UTF-8 encoding of one code point (up to three bytes: the Basic
\* Multilingual Plane), as str::bytes / as_bytes yield it.
Utf8(c) ==
    IF c < 128 THEN <<c>>
    ELSE IF c < 2048 THEN <<192 + (c \div 64), 128 + (c % 64)>>
    ELSE <<224 + (c \div 4096), 128 + ((c \div 64) % 64), 128 + (c % 64)>>

RECURSIVE Utf8Bytes(_)
\* str::as_bytes: the bytes of a text.
Utf8Bytes(s) == IF s = <<>> THEN <<>> ELSE Utf8(Head(s)) \o Utf8Bytes(Tail(s))

RECURSIVE Packed(_)
\* The runs of a text: a key as the mapping holds it.
Packed(s) ==
    IF s = <<>> THEN <<>>
    ELSE LET rest == Packed(Tail(s)) IN
         IF rest # <<>> /\ rest[1][1] = Head(s)
         THEN <<<<Head(s), rest[1][2] + 1>>>> \o Tail(rest)
         ELSE <<<<Head(s), 1>>>> \o rest

RECURSIVE Unpacked(_)
\* The text of a key.
Unpacked(k) ==
    IF k = <<>> THEN <<>>
    ELSE [i \in 1..k[1][2] |-> k[1][1]] \o Unpacked(Tail(k))

RECURSIVE ByteLen(_)
\* String::len of a key: its length in bytes.
ByteLen(k) ==
    IF k = <<>> THEN 0 ELSE k[1][2] * Len(Utf8(k[1][1])) + ByteLen(Tail(k))

\* str::bytes of a key, as the set of the byte values it yields.
KeyBytes(k) == UNION {{Utf8(k[r][1])[i] : i \in 1..Len(Utf8(k[r][1]))} : r \in DOMAIN k}

IsAsciiAlnum(c) ==
    \/ (c >= 48 /\ c <= 57)
    \/ (c >= 65 /\ c <= 90)
    \/ (c >= 97 /\ c <= 122)

\* Greek letters U+0370..U+03FF used by the model (alpha, beta, lambda) are
\* Alphabetic; U+00B2 SUPERSCRIPT TWO is Numeric (category No) and not
\* Alphabetic; U+26A1 HIGH VOLTAGE SIGN is a symbol.
IsGreekLetter(c) == c >= 945 /\ c <= 969

\* char::is_alphanumeric: Alphabetic or Numeric (Nd, Nl, No).
IsAlphanumeric(c) == IsAsciiAlnum(c) \/ IsGreekLetter(c) \/ c = 178

\* The regex crate's Unicode word character (\w): Alphabetic, M, Nd, Pc,
\* Join_Control. U+00B2 (No) is not a word character; '_' (Pc) is.
IsWordChar(c) == IsAsciiAlnum(c) \/ c = 95 \/ IsGreekLetter(c)

(***************************************************************************)
(* ThreatDetector                                                           *)
(***************************************************************************)

\* The denylist handed to AhoCorasick::new.
threats == {
    <<101, 118, 97, 108, 40>>,                      \* "eval("
    <<101, 118, 97, 108, 32, 40>>,                  \* "eval ("
    <<101, 120, 101, 99, 40>>,                      \* "exec("
    <<101, 120, 101, 99, 32, 40>>,                  \* "exec ("
    <<99, 111, 109, 112, 105, 108, 101, 40>>,       \* "compile("
    <<99, 111, 109, 112, 105, 108, 101, 32, 40>>,   \* "compile ("
    <<103, 101, 116, 97, 116, 116, 114, 40, 95, 95, 98, 117, 105, 108, 116, 105, 110, 115, 95, 95>>,      \* "getattr(__builtins__"
    <<103, 101, 116, 97, 116, 116, 114, 40, 95, 95, 98, 117, 105, 108, 116, 105, 110, 115, 95, 95, 44>>,  \* "getattr(__builtins__,"
    <<103, 108, 111, 98, 97, 108, 115, 40>>,        \* "globals("
    <<103, 108, 111, 98, 97, 108, 115, 32, 40>>,    \* "globals ("
    <<108, 111, 99, 97, 108, 115, 40>>,             \* "locals("
    <<108, 111, 99, 97, 108, 115, 32, 40>>,         \* "locals ("
    <<111, 115, 46, 115, 121, 115, 116, 101, 109, 40>>,      \* "os.system("
    <<111, 115, 46, 115, 121, 115, 116, 101, 109, 32, 40>>,  \* "os.system ("
    <<115, 117, 98, 112, 114, 111, 99, 101, 115, 115, 46>>,  \* "subprocess."
    <<95, 95, 105, 109, 112, 111, 114, 116, 95, 95>>,        \* "__import__"
    <<118, 97, 114, 115, 40>>,                      \* "vars("
    <<118, 97, 114, 115, 32, 40>>,                  \* "vars ("
    <<100, 105, 114, 40>>,                          \* "dir("
    <<100, 105, 114, 32, 40>>,                      \* "dir ("
    <<111, 112, 101, 110, 40>>,                     \* "open("
    <<111, 112, 101, 110, 32, 40>>,                 \* "open ("
    <<105, 110, 112, 117, 116, 40>>,                \* "input("
    <<114, 97, 119, 95, 105, 110, 112, 117, 116, 40>>  \* "raw_input("
}

\* ThreatDetector::new: the automaton over the denylist.
NewThreatDetector == threats

\* p occurs in s starting at position i (1-based), compared code point by
\* code point.
OccursAt(p, s, i) ==
    /\ i + Len(p) - 1 <= Len(s)
    /\ \A j \in 1..Len(p) : s[i + j - 1] = p[j]

RECURSIVE ScanFrom(_, _, _)
\* The automaton's scan of AhoCorasick::is_match: move through the haystack
\* and stop at the first position where a pattern is recognised.
ScanFrom(det, text, i) ==
    IF i > Len(text) THEN FALSE
    ELSE IF \E p \in det : OccursAt(p, text, i) THEN TRUE
    ELSE ScanFrom(det, text, i + 1)

ToLower(c) == IF c >= 65 /\ c <= 90 THEN c + 32 ELSE c

\* Mutant of is_dangerous: the haystack is folded to lower case before the
\* scan (a case-insensitive detector).
IsDangerousFolded(det, python_code) ==
    ScanFrom(det, [i \in DOMAIN python_code |-> ToLower(python_code[i])], 1)

\* ThreatDetector::is_dangerous
is_dangerous(det, python_code) == ScanFrom(det, python_code, 1)

(***************************************************************************)
(* SymbolTranspiler::configure                                              *)
(***************************************************************************)

\* Lines 35-43: the bytes above 127 of every key.
SymbolBytes(m) == {b \in UNION {KeyBytes(k) : k \in DOMAIN m} : b > 127}

\* Lines 45-46: the keys in an order sort_by_key(Reverse(len)) can produce. The
\* sort is stable over the hash map's iteration order, which is arbitrary, so
\* keys of equal byte length come in any order.
SortedSymbols(m) ==
    {s \in [1..Cardinality(DOMAIN m) -> DOMAIN m] :
        /\ \A i, j \in DOMAIN s : i # j => s[i] # s[j]
        /\ \A i, j \in DOMAIN s : i < j => ByteLen(s[i]) >= ByteLen(s[j])}

\* Lines 48-56: one alternative of the pattern per key; a key made only of
\* alphanumeric characters and '_' is wrapped in \b...\b. regex::escape makes
\* the key a literal of the pattern.
EscapeSymbol(s) ==
    [lit |-> s, wb |-> \A r \in DOMAIN s : IsAlphanumeric(s[r][1]) \/ s[r][1] = 95]

escaped_symbols(symbols) == [i \in DOMAIN symbols |-> EscapeSymbol(symbols[i])]


\* The regex crate's default size limit of a compiled pattern, in bytes
\* (RegexBuilder::size_limit, 10 * (1 << 20)); Regex::new uses it.
RegexSizeLimit == 10485760

\* Key sets of up to this many bytes compile: far below the smallest key set
\* Regex::new rejects.
SmallPatternSize == 65536

RECURSIVE PatternSize(_)
\* The bytes of key text in the pattern.
PatternSize(alts) ==
    IF alts = <<>> THEN 0 ELSE ByteLen(Head(alts).lit) + PatternSize(Tail(alts))

\* Lines 58-62: Regex::new on "(" + alternatives joined by "|" + ")": the
\* results it can give. It fails only when the compiled pattern exceeds the
\* size limit. The compiled size is computed inside the regex crate, not by
\* this program: every byte of key text takes at least one byte of it, so a
\* pattern with RegexSizeLimit bytes of keys or more is rejected; a small
\* pattern compiles; between the two the model leaves the result open.
RegexNew(alts) ==
    {r \in {[ok |-> TRUE, regex |-> alts], [ok |-> FALSE, regex |-> <<>>]} :
        IF r.ok THEN PatternSize(alts) < RegexSizeLimit
        ELSE PatternSize(alts) > SmallPatternSize}

ConfigureOk == [ok |-> TRUE, text |-> <<>>, err |-> ""]
ConfigureErr ==
    [ok |-> FALSE, text |-> <<>>,
     err |-> "Regex compilation failed: Compiled regex exceeds size limit of 10485760 bytes."]

\* Mutant of configure: the early return for an empty mapping leaves the
\* pattern and the symbol-byte set of the earlier mapping in place.
ConfigureKeepsMatcher(m) ==
    /\ op' = "configure"
    /\ arg' = [mappings |-> m]
    /\ mappings' = m
    /\ UNCHANGED <<detector, calls>>
    /\ IF m = EmptyMap
       THEN /\ UNCHANGED <<pattern, symbol_bytes>>
            /\ ret' = ConfigureOk
       ELSE /\ symbol_bytes' = Some(SymbolBytes(m))
            /\ \E symbols \in SortedSymbols(m) :
                 \E compiled \in RegexNew(escaped_symbols(symbols)) :
                 IF compiled.ok
                 THEN /\ pattern' = Some(compiled.regex)
                      /\ ret' = ConfigureOk
                 ELSE /\ pattern' = pattern
                      /\ ret' = ConfigureErr

\* SymbolTranspiler::configure(mappings)
configure(m) ==
    /\ op' = "configure"
    /\ arg' = [mappings |-> m]
    /\ mappings' = m
    /\ UNCHANGED <<detector, calls>>
    /\ IF m = EmptyMap
       THEN /\ pattern' = None
            /\ symbol_bytes' = None
            /\ ret' = ConfigureOk
       ELSE /\ symbol_bytes' = Some(SymbolBytes(m))
            /\ \E symbols \in SortedSymbols(m) :
                 \E compiled \in RegexNew(escaped_symbols(symbols)) :
                 IF compiled.ok
                 THEN /\ pattern' = Some(compiled.regex)
                      /\ ret' = ConfigureOk
                 ELSE /\ pattern' = pattern
                      /\ ret' = ConfigureErr

(***************************************************************************)
(* SymbolTranspiler::transpile                                              *)
(***************************************************************************)

\* SymbolTranspiler::contains_symbols: some byte of the source is above 127
\* and in the symbol-byte set (the 64-byte chunking does not change which
\* bytes are visited).
contains_symbols(sb, source) ==
    IF sb = None THEN FALSE
    ELSE LET bytes == Utf8Bytes(source) IN
         \E i \in 1..Len(bytes) : bytes[i] > 127 /\ bytes[i] \in sb[1]

\* The regex \b: the characters on the two sides of position p (between
\* src[p-1] and src[p]) differ in being word characters; outside the text
\* counts as a non-word character.
WordBoundary(src, p) ==
    LET before == p - 1 >= 1 /\ p - 1 <= Len(src) /\ IsWordChar(src[p - 1])
        after == p >= 1 /\ p <= Len(src) /\ IsWordChar(src[p])
    IN before # after

AltMatchesAt(alt, src, i) ==
    LET lit == Unpacked(alt.lit) IN
    /\ OccursAt(lit, src, i)
    /\ alt.wb => (WordBoundary(src, i) /\ WordBoundary(src, i + Len(lit)))

\* Leftmost-first alternation: at start position i the first alternative, in
\* pattern order, that matches there; 0 when none does.
FirstAlt(alts, src, i) ==
    IF \E k \in DOMAIN alts : AltMatchesAt(alts[k], src, i)
    THEN CHOOSE k \in DOMAIN alts :
            /\ AltMatchesAt(alts[k], src, i)
            /\ \A j \in 1..(k - 1) : ~AltMatchesAt(alts[j], src, i)
    ELSE 0

\* Mutant of ResumeAt: the search resumes one character after the start of
\* the match, inside the span just matched.
ResumeAtNextChar(start, n) == start + 1

\* Where the search for the next match resumes after a match of n characters
\* at start: right behind it (keys are non-empty).
ResumeAt(start, n) == start + n

RECURSIVE CapturesIter(_, _, _)
\* The successive non-overlapping matches replace_all walks through, from
\* position i on: [start, matched].
CapturesIter(alts, src, i) ==
    IF i > Len(src) THEN <<>>
    ELSE LET k == FirstAlt(alts, src, i) IN
         IF k = 0 THEN CapturesIter(alts, src, i + 1)
         ELSE LET matched == Unpacked(alts[k].lit) IN
              <<[start |-> i, matched |-> matched]>>
              \o CapturesIter(alts, src, ResumeAt(i, Len(matched)))

SecurityBlocked == <<83, 69, 67, 85, 82, 73, 84, 89, 95, 66, 76, 79, 67, 75, 69, 68>>  \* "SECURITY_BLOCKED"

\* Mutant of Closure: the detector gates the replacement whatever
\* bypass_security says.
ClosureIgnoresBypass(m, det, bypass_security, matched) ==
    IF Packed(matched) \in DOMAIN m
    THEN IF is_dangerous(det, m[Packed(matched)])
         THEN [emit |-> SecurityBlocked, blocked |-> TRUE]
         ELSE [emit |-> m[Packed(matched)], blocked |-> FALSE]
    ELSE [emit |-> matched, blocked |-> FALSE]

\* Lines 94-106, the closure given to replace_all: what it returns for one
\* match and whether it sets `blocked`.
Closure(m, det, bypass_security, matched) ==
    IF Packed(matched) \in DOMAIN m
    THEN IF ~bypass_security /\ is_dangerous(det, m[Packed(matched)])
         THEN [emit |-> SecurityBlocked, blocked |-> TRUE]
         ELSE [emit |-> m[Packed(matched)], blocked |-> FALSE]
    ELSE [emit |-> matched, blocked |-> FALSE]

RECURSIVE Assemble(_, _, _, _)
\* Regex::replace_all: the text between matches is copied, each match is
\* replaced by what the closure returned for it, the tail is copied.
\* caps[n..] are the matches not yet written, last the position copied up to.
Assemble(src, caps, n, last) ==
    IF n > Len(caps) THEN SubSeq(src, last, Len(src))
    ELSE SubSeq(src, last, caps[n].start - 1)
         \o caps[n].emit
         \o Assemble(src, caps, n + 1, caps[n].start + Len(caps[n].matched))

\* The closure applied to every match, in order.
ClosureCalls(m, det, bypass_security, caps) ==
    [n \in DOMAIN caps |->
        LET r == Closure(m, det, bypass_security, caps[n].matched) IN
        [start |-> caps[n].start, matched |-> caps[n].matched,
         emit |-> r.emit, blocked |-> r.blocked]]

TranspileOk(text) == [ok |-> TRUE, text |-> text, err |-> ""]
TranspileErr ==
    [ok |-> FALSE, text |-> <<>>,
     err |-> "Security: Dangerous pattern detected during transpilation"]

\* SymbolTranspiler::transpile(source, threat_detector, bypass_security)
transpile(source, bypass_security) ==
    /\ op' = "transpile"
    /\ arg' = [source |-> source, bypass_security |-> bypass_security]
    /\ UNCHANGED <<mappings, pattern, symbol_bytes, detector>>
    /\ IF ~contains_symbols(symbol_bytes, source)
       THEN /\ calls' = <<>>
            /\ ret' = TranspileOk(source)
       ELSE IF pattern = None
       THEN /\ calls' = <<>>
            /\ ret' = TranspileOk(source)
       ELSE LET caps == CapturesIter(pattern[1], source, 1)
                done == ClosureCalls(mappings, detector, bypass_security, caps)
                blocked == \E n \in DOMAIN done : done[n].blocked
            IN /\ calls' = done
               /\ ret' = IF blocked THEN TranspileErr
                         ELSE TranspileOk(Assemble(source, done, 1, 1))

(***************************************************************************)
(* Inputs                                                                   *)
(***************************************************************************)

MapLambda == (Packed(<<955>>) :> <<108, 97, 109, 98, 100, 97>>)  \* {"λ": "lambda"}
MapBolt == (Packed(<<9889>>) :> <<101, 118, 97, 108, 40>>)  \* {"⚡": "eval("}
MapIf == (Packed(<<105, 102>>) :> <<87, 72, 69, 78>>)  \* {"if": "WHEN"}
MapAb == (Packed(<<97, 98>>) :> <<88>>) @@ (Packed(<<97, 98, 99>>) :> <<89>>)  \* {"ab": "X", "abc": "Y"}
MapGreek == (Packed(<<945>>) :> <<946>>) @@ (Packed(<<946>>) :> <<120>>)  \* {"α": "β", "β": "x"}
MapX == (Packed(<<120>>) :> <<101, 118, 97, 108, 40>>)  \* {"x": "eval("}
MapLambdaBolt == (Packed(<<955>>) :> <<108, 97, 109, 98, 100, 97>>) @@ (Packed(<<9889>>) :> <<101, 118, 97, 108, 40>>)  \* {"λ": "lambda", "⚡": "eval("}
MapBolts == (Packed(<<9889>>) :> <<33>>) @@ (Packed(<<9889, 9889>>) :> <<63>>)  \* {"⚡": "!", "⚡⚡": "?"}
MapLambdaPlus == (Packed(<<955>>) :> <<76>>) @@ (Packed(<<955, 43>>) :> <<80>>)  \* {"λ": "L", "λ+": "P"}
MapIfLambda == (Packed(<<105, 102>>) :> <<87, 72, 69, 78>>) @@ (Packed(<<955>>) :> <<108, 97, 109, 98, 100, 97>>)  \* {"if": "WHEN", "λ": "lambda"}
MapSquare == (Packed(<<178>>) :> <<42, 42, 50>>)  \* {"²": "**2"}

\* The length, in characters, of the key of MapHuge.
HugeKeyLen == 6000000

\* A key set too large for the pattern to compile: one key of HugeKeyLen
\* times "λ" (12,000,000 bytes), mapped to "big".
MapHuge == (<<<<955, HugeKeyLen>>>> :> <<98, 105, 103>>)

\* The mappings configure is called with. Keys are non-empty.
Mappings ==
    {EmptyMap, MapLambda, MapBolt, MapIf, MapAb, MapGreek, MapX, MapLambdaBolt,
     MapBolts, MapLambdaPlus, MapIfLambda, MapSquare, MapHuge}

ExampleSources == {
    <<35, 32, 955, 32, 99, 111, 109, 109, 101, 110, 116, 10, 955, 32, 120>>,  \* "# λ comment\nλ x"
    <<103, 105, 102, 116>>,  \* "gift"
    <<105, 102, 32, 120, 58>>,  \* "if x:"
    <<97, 98, 99, 100>>,  \* "abcd"
    <<97, 98, 99, 32, 100>>,  \* "abc d"
    <<945>>,  \* "α"
    <<97, 9889>>,  \* "a⚡"
    <<955, 32, 120>>,  \* "λ x"
    <<955, 43, 955>>,  \* "λ+λ"
    <<9889, 9889, 9889>>,  \* "⚡⚡⚡"
    <<105, 102, 32, 955>>,  \* "if λ"
    <<120, 178, 121>>,  \* "x²y"
    <<120, 178>>,  \* "x²"
    <<34, 955, 34, 32, 955>>,  \* "\"λ\" λ"
    <<105, 102>>,  \* "if"
    <<946, 32, 945>>  \* "β α"
}

\* The characters of the generated sources: λ, ⚡, x.
Alphabet == {955, 9889, 120}

\* Longest generated source.
MaxSrcLen == 2

GeneratedSources == UNION {[1..n -> Alphabet] : n \in 0..MaxSrcLen}

\* The sources transpile is called with.
Sources == ExampleSources \cup GeneratedSources

(***************************************************************************)
(* Specification: a transpiler and a detector, then any sequence of         *)
(* configure and transpile calls.                                           *)
(***************************************************************************)

\* SymbolTranspiler::new and ThreatDetector::new
Init ==
    /\ mappings = EmptyMap
    /\ pattern = None
    /\ symbol_bytes = None
    /\ detector = NewThreatDetector
    /\ op = "new"
    /\ arg = <<>>
    /\ ret = <<>>
    /\ calls = <<>>

Next ==
    \/ \E m \in Mappings : configure(m)
    \/ \E source \in Sources, bypass_security \in BOOLEAN : transpile(source, bypass_security)

Spec == Init /\ [][Next]_vars

(***************************************************************************)
(* Specification of the detector alone: is_dangerous called on texts.       *)
(***************************************************************************)

ToUpper(c) == IF c >= 97 /\ c <= 122 THEN c - 32 ELSE c

UpperCase(s) == [i \in DOMAIN s |-> ToUpper(s[i])]

\* Denylist entries, their upper-case forms, and entries cut short by one
\* character.
ProbeCores ==
    threats \cup {UpperCase(t) : t \in threats}
            \cup {SubSeq(t, 1, Len(t) - 1) : t \in threats}

ProbePrefixes == {<<>>, <<109, 121>>, <<32>>}   \* "", "my", " "
ProbeSuffixes == {<<>>, <<120, 41>>}            \* "", "x)"

\* The texts is_dangerous is called with.
ProbeTexts ==
    {pre \o core \o suf : pre \in ProbePrefixes, core \in ProbeCores, suf \in ProbeSuffixes}

\* ThreatDetector::is_dangerous(python_code), called on its own.
IsDangerousCall(python_code) ==
    /\ op' = "is_dangerous"
    /\ arg' = [python_code |-> python_code]
    /\ ret' = is_dangerous(detector, python_code)
    /\ UNCHANGED <<mappings, pattern, symbol_bytes, detector, calls>>

NextThreat == \E python_code \in ProbeTexts : IsDangerousCall(python_code)

SpecThreat == Init /\ [][NextThreat]_vars

(***************************************************************************)
(* Properties                                                               *)
(***************************************************************************)

\* The stored mapping, the compiled pattern and the symbol-byte set belong
\* to the same mapping.
Consistent ==
    IF mappings = EmptyMap
    THEN pattern = None /\ symbol_bytes = None
    ELSE /\ symbol_bytes = Some(SymbolBytes(mappings))
         /\ \E symbols \in SortedSymbols(mappings) :
                pattern = Some(escaped_symbols(symbols))

\* The matches the compiled matcher finds in a source when it is run over it.
MatcherFinds(source) ==
    IF pattern = None THEN <<>> ELSE CapturesIter(pattern[1], source, 1)

\* The span of closure call n covers source position i.
Covers(n, i) ==
    calls[n].start <= i /\ i < calls[n].start + Len(calls[n].matched)

RECURSIVE Growth(_, _)
\* By how much the first n replacements lengthen the text.
Growth(cs, n) ==
    IF n = 0 THEN 0
    ELSE Growth(cs, n - 1) + Len(cs[n].emit) - Len(cs[n].matched)

\* Where in the output the replacement of call n starts.
OutStart(n) == calls[n].start + Growth(calls, n - 1)

\* The output holds text t at position p.
OutputHolds(t, p) == ret.text = SubSeq(ret.text, 1, p - 1) \o t \o SubSeq(ret.text, p + Len(t), Len(ret.text))

\* C1: with bypass_security = false, when a symbol the matcher finds in the
\* source maps to a dangerous replacement, transpile returns a failure and
\* no success value.
SecurityGateBlocks ==
    (/\ op = "transpile"
     /\ ~arg.bypass_security
     /\ Consistent
     /\ LET found == MatcherFinds(arg.source) IN
        \E n \in DOMAIN found :
            /\ Packed(found[n].matched) \in DOMAIN mappings
            /\ is_dangerous(detector, mappings[Packed(found[n].matched)]))
    => ~ret.ok

\* C2: with bypass_security = true the detector never blocks: the call
\* succeeds, no closure call is blocked, and every matched symbol stands in
\* the output as its mapped replacement, dangerous or not.
BypassNeverBlocks ==
    (op = "transpile" /\ arg.bypass_security)
    => /\ ret.ok
       /\ \A n \in DOMAIN calls :
            /\ ~calls[n].blocked
            /\ Packed(calls[n].matched) \in DOMAIN mappings
               => /\ calls[n].emit = mappings[Packed(calls[n].matched)]
                  /\ OutputHolds(mappings[Packed(calls[n].matched)], OutStart(n))

\* C2 witness: {"⚡": "eval("} on "a⚡" with bypass yields "aeval(".
BypassWitness ==
    /\ op = "transpile"
    /\ arg.bypass_security
    /\ mappings = MapBolt
    /\ arg.source = <<97, 9889>>
    /\ ret = TranspileOk(<<97, 101, 118, 97, 108, 40>>)

\* The quote character that ends a string read in mode "dq" or "sq".
ClosingQuote(mode) == IF mode = "dq" THEN 34 ELSE 39

RECURSIVE ProtectedFrom(_, _, _)
\* The positions of a source that lie in a string literal or a line comment:
\* a scan from position i in mode "code", "comment", "dq" (in a double-quoted
\* string) or "sq" (in a single-quoted string). A comment runs from '#' to the
\* end of the line; a string runs from its quote to the next unescaped quote
\* of the same kind and does not span a newline.
ProtectedFrom(src, i, mode) ==
    IF i > Len(src) THEN {}
    ELSE IF mode = "code"
    THEN IF src[i] = 35 THEN {i} \cup ProtectedFrom(src, i + 1, "comment")
         ELSE IF src[i] = 34 THEN {i} \cup ProtectedFrom(src, i + 1, "dq")
         ELSE IF src[i] = 39 THEN {i} \cup ProtectedFrom(src, i + 1, "sq")
         ELSE ProtectedFrom(src, i + 1, "code")
    ELSE IF src[i] = 10 THEN ProtectedFrom(src, i + 1, "code")
    ELSE IF mode = "comment" THEN {i} \cup ProtectedFrom(src, i + 1, "comment")
    ELSE IF src[i] = 92 /\ i < Len(src) THEN {i, i + 1} \cup ProtectedFrom(src, i + 2, mode)
    ELSE IF src[i] = ClosingQuote(mode) THEN {i} \cup ProtectedFrom(src, i + 1, "code")
    ELSE {i} \cup ProtectedFrom(src, i + 1, mode)

Protected(src) == ProtectedFrom(src, 1, "code")

\* C3: transpile substitutes no symbol inside a string literal or a line
\* comment of the source, and {"λ": "lambda"} on "# λ comment\nλ x" yields
\* "# λ comment\nlambda x".
LiteralProtection ==
    op = "transpile"
    => /\ \A n \in DOMAIN calls : calls[n].start \notin Protected(arg.source)
       /\ (/\ mappings = MapLambda
           /\ arg.source = <<35, 32, 955, 32, 99, 111, 109, 109, 101, 110, 116, 10, 955, 32, 120>>)
          => ret = TranspileOk(<<35, 32, 955, 32, 99, 111, 109, 109, 101, 110, 116, 10,
                                 108, 97, 109, 98, 100, 97, 32, 120>>)

\* C4: the fast path has no false negative: whenever the compiled matcher
\* of a non-empty mapping finds a key in the source, contains_symbols is
\* true and the call returns what the matcher pass returns.
FastPathNoFalseNegative ==
    (/\ op = "transpile"
     /\ mappings # EmptyMap
     /\ Consistent
     /\ MatcherFinds(arg.source) # <<>>)
    => /\ contains_symbols(symbol_bytes, arg.source)
       /\ calls = ClosureCalls(mappings, detector, arg.bypass_security, MatcherFinds(arg.source))

\* The key is made only of alphanumeric characters and underscores.
IdentifierLike(k) == \A i \in 1..Len(k) : IsAlphanumeric(k[i]) \/ k[i] = 95

\* The texts of the keys of the stored mapping.
Keys == {Unpacked(k) : k \in DOMAIN mappings}

\* Key k stands in the source at position i under its boundary rule.
StandsAt(k, source, i) ==
    /\ OccursAt(k, source, i)
    /\ IdentifierLike(k) => (WordBoundary(source, i) /\ WordBoundary(source, i + Len(k)))

\* C5: an identifier-like key is substituted only where it stands at word
\* boundaries on both sides; every occurrence of a key that stands under its
\* boundary rule is taken by a substitution; {"if": "WHEN"} leaves "gift"
\* alone and turns "if x:" into "WHEN x:".
BoundarySafety ==
    (op = "transpile" /\ Consistent)
    => /\ \A n \in DOMAIN calls :
            IdentifierLike(calls[n].matched)
            => /\ WordBoundary(arg.source, calls[n].start)
               /\ WordBoundary(arg.source, calls[n].start + Len(calls[n].matched))
       /\ \A k \in Keys : \A i \in 1..Len(arg.source) :
            StandsAt(k, arg.source, i) => \E n \in DOMAIN calls : Covers(n, i)
       /\ (mappings = MapIf /\ arg.source = <<103, 105, 102, 116>>)
          => ret = TranspileOk(<<103, 105, 102, 116>>)
       /\ (mappings = MapIf /\ arg.source = <<105, 102, 32, 120, 58>>)
          => ret = TranspileOk(<<87, 72, 69, 78, 32, 120, 58>>)

\* Key a is a proper prefix of key b.
ProperPrefix(a, b) == Len(a) < Len(b) /\ SubSeq(b, 1, Len(a)) = a

\* C6: where a key and a longer key it is a prefix of both stand at the same
\* start position, not taken by an earlier match, the longer key is the one
\* substituted there and never the shorter; {"ab": "X", "abc": "Y"} on "abcd"
\* yields "Yd".
LongestMatchPriority ==
    (op = "transpile" /\ Consistent)
    => /\ \A a, b \in Keys : \A i \in 1..Len(arg.source) :
            (/\ ProperPrefix(a, b)
             /\ StandsAt(a, arg.source, i)
             /\ StandsAt(b, arg.source, i)
             /\ \A n \in DOMAIN calls : Covers(n, i) => calls[n].start = i)
            => /\ \E n \in DOMAIN calls : calls[n].start = i /\ calls[n].matched = b
               /\ \A n \in DOMAIN calls : ~(calls[n].start = i /\ calls[n].matched = a)
       /\ (mappings = MapAb /\ arg.source = <<97, 98, 99, 100>>)
          => ret = TranspileOk(<<89, 100>>)

\* C7: with an empty mapping stored, no pattern and no symbol-byte set are
\* left behind and transpile returns the source unchanged, whatever
\* bypass_security is.
EmptyMappingNoOp ==
    mappings = EmptyMap
    => /\ pattern = None
       /\ symbol_bytes = None
       /\ op = "transpile" => (ret = TranspileOk(arg.source) /\ calls = <<>>)

\* C7 witness: after configure calls the last of which passed an empty
\* mapping, transpile of "λ x" returned "λ x".
EmptyMappingWitness ==
    /\ op = "transpile"
    /\ mappings = EmptyMap
    /\ arg.source = <<955, 32, 120>>
    /\ ret = TranspileOk(<<955, 32, 120>>)

\* C8: is_dangerous is true exactly when the text contains a denylist entry
\* as a contiguous substring, case-sensitively and without regard to word
\* boundaries ("myeval(x)" is dangerous, "EVAL(" is not), and the call leaves
\* the detector as it was.
ThreatSubstring ==
    op = "is_dangerous"
    => /\ ret = (\E i, j \in 1..Len(arg.python_code) :
                    SubSeq(arg.python_code, i, j) \in threats)
       /\ arg.python_code = <<109, 121, 101, 118, 97, 108, 40, 120, 41>> => ret
       /\ arg.python_code = <<69, 86, 65, 76, 40>> => ~ret
       /\ detector = NewThreatDetector

\* C8 witness: is_dangerous("myeval(x)") returned true.
ThreatWitness ==
    /\ op = "is_dangerous"
    /\ arg.python_code = <<109, 121, 101, 118, 97, 108, 40, 120, 41>>
    /\ ret = TRUE

\* C9: after configure fails to compile the key set, the transpiler holds no
\* partial state: mapping, pattern and symbol-byte set belong to one mapping,
\* and every span a later transpile matches is a key of the stored mapping.
CompileFailureInstallsNothing ==
    /\ (op = "configure" /\ ~ret.ok) => Consistent
    /\ op = "transpile" => \A n \in DOMAIN calls : Packed(calls[n].matched) \in DOMAIN mappings

\* C10: substitution is one left-to-right pass over non-overlapping matches:
\* each closure call takes a whole span of the source, the next one starts at
\* or after the end of the earlier, no match is left between them, the
\* replacement text is emitted as mapped and never expanded again, and the
\* source outside the spans is unchanged in the output.
SinglePassSubstitution ==
    op = "transpile"
    => /\ \A n \in DOMAIN calls :
            /\ calls[n].matched = SubSeq(arg.source, calls[n].start,
                                         calls[n].start + Len(calls[n].matched) - 1)
            /\ n > 1 => calls[n - 1].start + Len(calls[n - 1].matched) <= calls[n].start
       /\ calls # <<>> =>
            \A i \in 1..Len(arg.source) :
                (\A n \in DOMAIN calls : ~Covers(n, i)) => FirstAlt(pattern[1], arg.source, i) = 0
       /\ ret.ok =>
            /\ Len(ret.text) = Len(arg.source) + Growth(calls, Len(calls))
            /\ \A n \in DOMAIN calls :
                 /\ calls[n].emit =
                        IF Packed(calls[n].matched) \in DOMAIN mappings
                        THEN mappings[Packed(calls[n].matched)] ELSE calls[n].matched
                 /\ OutputHolds(calls[n].emit, OutStart(n))
            /\ \A i \in 1..Len(arg.source) :
                 (\A n \in DOMAIN calls : ~Covers(n, i))
                 => ret.text[i + Growth(calls, Cardinality({n \in DOMAIN calls : calls[n].start < i}))]
                    = arg.source[i]

\* C10 witness: {"α": "β", "β": "x"} on "α" yields "β", not "x".
SinglePassWitness ==
    /\ op = "transpile"
    /\ mappings = MapGreek
    /\ arg.source = <<945>>
    /\ calls # <<>>
    /\ ret = TranspileOk(<<946>>)

====
